---------------------------- MODULE Spec2Model ----------------------------
(***************************************************************************)
(* Cluster RPC aggregation of maasserver (clusterrpc/osystems.py): the     *)
(* fleet-wide queries gen_all_known_operating_systems,                     *)
(* get_os_release_title and validate_license_key, which gather one call    *)
(* per connected cluster, suppress the failures and reduce the rest, and   *)
(* the single-cluster calls get_preseed_data,                              *)
(* compose_curtin_network_preseed and validate_license_key_for, which      *)
(* wait on one call and let every error through.  A second part is the     *)
(* post_delete handler delete_large_file of models/bootresourcefile.py.    *)
(***************************************************************************)
EXTENDS Integers, Sequences, FiniteSets, TLC

(* ------------------------------ bounds -------------------------------- *)

\* number of clusters (agents) the region knows
MaxAgents == 3

\* number of BootResourceFile rows and of LargeFile rows
MaxFiles == 2
MaxLargeFiles == 2

(* ------------------------- program constants -------------------------- *)

\* call.wait(30): the seconds a single-cluster call waits for its response
WaitSeconds == 30

(* ----------------------------- vocabulary ----------------------------- *)

Agents == 1 .. MaxAgents

\* error taxonomy of the aggregation layer
ErrorKinds ==
    {"NoConnectionsAvailable", "UnknownRemoteEntity", "UnsupportedOperation",
     "Timeout", "TransportFailure"}

FanOutOps ==
    {"gen_all_known_operating_systems", "get_os_release_title",
     "validate_license_key"}

SingleOps ==
    {"get_preseed_data", "compose_curtin_network_preseed",
     "validate_license_key_for"}

\* the RPC command each operation names in its call
CommandOf(o) ==
    CASE o = "gen_all_known_operating_systems" -> "ListOperatingSystems"
      [] o = "get_os_release_title" -> "GetOSReleaseTitle"
      [] o = "validate_license_key" -> "ValidateLicenseKey"
      [] o = "get_preseed_data" -> "GetPreseedData"
      [] o = "compose_curtin_network_preseed" -> "ComposeCurtinNetworkPreseed"
      [] o = "validate_license_key_for" -> "ValidateLicenseKey"

\* every operation reading the key "data"
KeyOf_data(o) == "data"

\* the key of the response each single-cluster operation reads with .get()
KeyOf(o) ==
    IF o = "validate_license_key_for" THEN "is_valid" ELSE "data"

(* ------------------------------ outcomes ------------------------------ *)

Pending == [tag |-> "Pending", val |-> "-"]
Success(p) == [tag |-> "Success", val |-> p]
Failure(k) == [tag |-> "Failure", val |-> k]

\* a test that recognises one kind of failure only
IsFailure_transport_only(o) ==
    o.tag = "Failure" /\ o.val = "TransportFailure"

\* isinstance(response, Failure)
IsFailure(o) == o.tag = "Failure"
IsSuccess(o) == o.tag = "Success"
IsPending(o) == o.tag = "Pending"

(* --------------------------- remote answers --------------------------- *)

\* release titles a cluster may answer GetOSReleaseTitle with
Titles == {"", "a", "b"}

Release(n, t) == [name |-> n, title |-> t]
Osystem(n, rs) == [name |-> n, releases |-> rs]

OsNames == {"ubuntu", "custom"}

\* operating systems a cluster may list: the same name with different
\* detail, and the custom OS with two releases
Ubuntu2004 == Osystem("ubuntu", <<Release("20.04", "Ubuntu 20.04")>>)
Ubuntu2204 == Osystem("ubuntu", <<Release("22.04", "Ubuntu 22.04")>>)
Custom ==
    Osystem("custom", <<Release("r1", "old"), Release("r2", "other")>>)

\* the "osystems" lists a cluster may answer ListOperatingSystems with
OsystemLists ==
    {<<>>, <<Ubuntu2004>>, <<Ubuntu2204>>, <<Custom>>,
     <<Ubuntu2004, Custom>>}

\* the success payloads of each command, as the dict the cluster sends
PayloadsOf(o) ==
    CASE o = "gen_all_known_operating_systems" ->
           {[osystems |-> l] : l \in OsystemLists}
      [] o = "get_os_release_title" -> {[title |-> t] : t \in Titles}
      [] o = "validate_license_key" -> {[is_valid |-> b] : b \in BOOLEAN}

\* a single-cluster response is a dict, here a set of key/value pairs: it
\* carries the key the caller reads, alone or beside another, or lacks it
SinglePayloadsOf(o) ==
    {{<<KeyOf(o), "v1">>}, {<<KeyOf(o), "v2">>, <<"extra", "x">>},
     {<<"extra", "x">>}}

\* what a call of a fan-out round may settle to
FanOutOutcomes(o) ==
    {Success(p) : p \in PayloadsOf(o)} \cup {Failure(k) : k \in ErrorKinds}

\* what the remote side of a single-cluster call may settle to; the
\* timeout is the caller's, NoConnectionsAvailable the registry's
SingleOutcomes(o) ==
    {Success(p) : p \in SinglePayloadsOf(o)}
        \cup {Failure(k) : k \in ErrorKinds \ {"NoConnectionsAvailable",
                                                 "Timeout"}}

(* -------------------------- uploaded resources ------------------------ *)

\* BootResource rows of rtype UPLOADED: name and extra (a set of key/value
\* pairs)
BootResource(n, e) == [name |-> n, extra |-> e]

\* no row; a row for one custom release without a title; rows with a
\* title for one custom release and for a release of another OS
UploadedChoices ==
    {{}, {BootResource("r1", {})},
     {BootResource("r1", {<<"title", "new">>}),
      BootResource("20.04", {<<"title", "Focal">>})}}

VARIABLES
    connected,  \* registry: the agents that have a live connection
    uploaded,   \* BootResource.objects.filter(rtype=UPLOADED)
    pc,         \* where the running operation is
    op,         \* the operation running, "-" when none
    target,     \* the agent a single-cluster operation names, 0 when none
    clients,    \* the connections the round dispatched to, in input order
    remote,     \* per dispatched call: Pending, or what it settled to
    outcomes,   \* the executor's outcome set, populated as calls settle
    responses,  \* the outcome set gather handed to the caller
    idx,        \* how many filtered responses the loop has consumed
    seen,       \* gen_all_known_operating_systems: seen[name]
    emitted,    \* gen_all_known_operating_systems: what was yielded
    title,      \* get_os_release_title: title
    is_valid,   \* validate_license_key: is_valid
    result,     \* what the operation returned or raised
    sent,       \* per agent, the calls issued to it in this operation
    in_order,   \* history: the calls so far settled in input order
    args,       \* the keyword arguments the operation was called with
    left_over,  \* history: the function whose call before left its locals
                \* filled, kept while that function runs again
    waited,     \* the seconds call.wait has been blocking the caller
    resource_files,  \* the BootResourceFile rows: id and largefile
    large_files,     \* the ids of the LargeFile rows
    signal,          \* history: the post_delete signal handled last
    delete_calls,    \* history: the LargeFiles its handler called delete on
    raised           \* history: the error that left its handler, "-" if none

osystems_vars ==
    <<connected, uploaded, pc, op, target, clients, remote, outcomes,
      responses, idx, seen, emitted, title, is_valid, result, sent,
      in_order, args, left_over, waited>>

delete_vars == <<resource_files, large_files, signal, delete_calls, raised>>

vars == <<osystems_vars, delete_vars>>

NoResult == [kind |-> "-", val |-> "-"]
Value(v) == [kind |-> "value", val |-> v]
None == [kind |-> "None", val |-> "None"]
Raised(k) == [kind |-> "error", val |-> k]

EmptySeen == [n \in OsNames |-> <<>>]
\* no operation is running: there are no arguments
NoArgs == {}

NothingSent == [a \in Agents |-> <<>>]

(* ------------------------------ registry ------------------------------ *)

RECURSIVE InOrder(_)
InOrder(S) ==
    IF S = {} THEN <<>>
    ELSE LET a == CHOOSE x \in S : \A y \in S : x <= y
         IN  <<a>> \o InOrder(S \ {a})

\* maasserver.rpc.getAllClients(): one client per connected cluster
getAllClients == InOrder(connected)

\* a lookup that falls back on any live connection
getClientFor_any(a) ==
    IF a \in connected THEN Value(a)
    ELSE IF connected # {} THEN Value(CHOOSE x \in connected : TRUE)
    ELSE Raised("NoConnectionsAvailable")

\* maasserver.rpc.getClientFor(uuid): the client, or NoConnectionsAvailable
getClientFor(a) ==
    IF a \in connected THEN Value(a) ELSE Raised("NoConnectionsAvailable")

(* --------------------------- pure functions --------------------------- *)

\* dict.get(key): the value under key, None when the key is absent
Get(d, key) ==
    IF \E kv \in d : kv[1] = key
    THEN Value((CHOOSE kv \in d : kv[1] = key)[2])
    ELSE None

\* get_one(resources.filter(name=name)): the matching rows, none or one
get_uploaded_resource_with_name(resources, name) ==
    {r \in resources : r.name = name}

\* a fixup that takes the title of any row found, titled or not
fix_release_any_row(custom_resources, release) ==
    LET resource == get_uploaded_resource_with_name(custom_resources,
                                                    release.name)
    IN  IF resource # {}
        THEN LET extra == (CHOOSE r \in resource : TRUE).extra
             IN  [release EXCEPT
                    !.title = IF \E kv \in extra : kv[1] = "title"
                              THEN Get(extra, "title").val
                              ELSE ""]
        ELSE release

fix_release(custom_resources, release) ==
    LET resource == get_uploaded_resource_with_name(custom_resources,
                                                    release.name)
    IN  IF resource # {}
           /\ \E r \in resource : \E kv \in r.extra : kv[1] = "title"
        THEN [release EXCEPT
                !.title = Get((CHOOSE r \in resource : TRUE).extra,
                              "title").val]
        ELSE release

fix_custom_osystem_release_titles(osystem) ==
    [osystem EXCEPT
       !.releases = [i \in DOMAIN osystem.releases |->
                       fix_release(uploaded, osystem.releases[i])]]

\* a filter that stops at the first failure
RECURSIVE suppress_failures_break(_)
suppress_failures_break(rs) ==
    IF Len(rs) = 0 THEN <<>>
    ELSE IF ~IsFailure(Head(rs))
         THEN <<Head(rs)>> \o suppress_failures_break(Tail(rs))
         ELSE <<>>

\* a filter that yields the responses last to first
RECURSIVE suppress_failures_reversed(_)
suppress_failures_reversed(rs) ==
    IF Len(rs) = 0 THEN <<>>
    ELSE IF ~IsFailure(Head(rs))
         THEN suppress_failures_reversed(Tail(rs)) \o <<Head(rs)>>
         ELSE suppress_failures_reversed(Tail(rs))

RECURSIVE suppress_failures(_)
suppress_failures(rs) ==
    IF Len(rs) = 0 THEN <<>>
    ELSE IF ~IsFailure(Head(rs))
         THEN <<Head(rs)>> \o suppress_failures(Tail(rs))
         ELSE suppress_failures(Tail(rs))

Contains(l, x) == \E k \in DOMAIN l : l[k] = x

\* the body of the inner loop of gen_all_known_operating_systems for one
\* osystem.  seen[name] holds the very dict that the fixup then changes in
\* place, so the list keeps the fixed-up value.
merge_osystem(acc, osystem) ==
    LET name == osystem.name
    IN  IF ~Contains(acc.seen[name], osystem)
        THEN LET out == IF name = "custom"
                        THEN fix_custom_osystem_release_titles(osystem)
                        ELSE osystem
             IN  [seen |-> [acc.seen EXCEPT ![name] = Append(@, out)],
                  emitted |-> Append(acc.emitted, out)]
        ELSE acc

RECURSIVE merge_osystems(_, _)
merge_osystems(acc, l) ==
    IF Len(l) = 0 THEN acc
    ELSE merge_osystems(merge_osystem(acc, Head(l)), Tail(l))

\* a title loop in which the first non-empty title wins
fold_title_first(t, response) ==
    IF t = "" THEN response.title ELSE t

\* a validity loop that keeps the last answer only
fold_is_valid_last(v, response) == response.is_valid

\* a validity loop in which an answer counts only while none has
fold_is_valid_unless_set(v, response) == ~v /\ response.is_valid

\* the loop bodies of get_os_release_title and validate_license_key
fold_title(t, response) ==
    IF response.title # "" THEN response.title ELSE t

fold_is_valid(v, response) == v \/ response.is_valid

(* ------------------------- fan-out executor --------------------------- *)

\* the keyword arguments an operation may be called with and passes on
\* to the command, as sets of name/value pairs
ArgsOf(o) ==
    CASE o = "gen_all_known_operating_systems" -> {{}}
      [] o = "get_os_release_title" ->
           {{<<"osystem", "ubuntu">>, <<"release", "20.04">>},
            {<<"osystem", "custom">>, <<"release", "r1">>}}
      [] o \in {"validate_license_key", "validate_license_key_for"} ->
           {{<<"osystem", "windows">>, <<"release", "win2012">>,
             <<"key", k>>} : k \in {"k1", "k2"}}
      [] o = "get_preseed_data" ->
           {{<<"osystem", "ubuntu">>, <<"preseed_type", "curtin">>,
             <<"node_system_id", "n1">>, <<"node_hostname", "h1">>,
             <<"consumer_key", "ck">>, <<"token_key", "tk">>,
             <<"token_secret", "ts">>, <<"metadata_url", "u">>}}
      [] o = "compose_curtin_network_preseed" ->
           {{<<"osystem", "ubuntu">>, <<"config", "c">>,
             <<"disable_ipv4", "no">>}}

\* a call list that names every client twice
Calls_twice(o, kw) ==
    [i \in 1 .. 2 * Len(getAllClients) |->
       [client |-> getAllClients[(i + 1) \div 2], command |-> CommandOf(o),
        args |-> kw]]

\* the calls an operation hands to gather: partial(client, command,
\* **kw) for client in getAllClients()
Calls(o, kw) ==
    [i \in DOMAIN getAllClients |->
       [client |-> getAllClients[i], command |-> CommandOf(o),
        args |-> kw]]

\* gather issues every call: each is outstanding, the outcome set is empty
gather_issue(calls) == [i \in DOMAIN calls |-> Pending]

\* a gather that records outcomes in the order the calls complete
gather_record_arrival(set, i, outcome) ==
    LET k == CHOOSE k \in DOMAIN set :
                 /\ IsPending(set[k])
                 /\ \A j \in 1 .. k - 1 : ~IsPending(set[j])
    IN  [set EXCEPT ![k] = outcome]

\* gather records the outcome of the call at input position i
gather_record(set, i, outcome) == [set EXCEPT ![i] = outcome]

\* a gather that returns as soon as one call has settled
gather_settled_some(set) ==
    DOMAIN set = {} \/ \E i \in DOMAIN set : ~IsPending(set[i])

\* a gather that waits for a first outcome even when it issued no call
gather_settled_nonempty(set) ==
    DOMAIN set # {} /\ \A i \in DOMAIN set : ~IsPending(set[i])

\* gather returns once every call it issued has settled
gather_settled(set) == \A i \in DOMAIN set : ~IsPending(set[i])

\* a gather that returns the successes only
gather_result_successes(set) == SelectSeq(set, IsSuccess)

\* the outcome set gather returns: the whole set, in input order
gather_result(set) == set

\* what the client of agent a is invoked with: command and arguments
Invocation(command, kw) == [command |-> command, args |-> kw]

\* the invocations that calls carries for agent a, in order
RECURSIVE CommandsTo(_, _)
CommandsTo(calls, a) ==
    IF Len(calls) = 0 THEN <<>>
    ELSE (IF Head(calls).client = a
          THEN <<Invocation(Head(calls).command, Head(calls).args)>>
          ELSE <<>>)
             \o CommandsTo(Tail(calls), a)

\* issuing the calls invokes each client once with its command
Issue(calls) == [a \in Agents |-> sent[a] \o CommandsTo(calls, a)]

\* an accumulator that lives on from one call of the function to the next
Accumulator_shared ==
    [seen |-> seen, emitted |-> emitted, title |-> title,
     is_valid |-> is_valid]

\* the locals a fleet-wide query creates for its loop: seen =
\* defaultdict(list) and nothing yielded, title = "", is_valid = False
Accumulator ==
    [seen |-> EmptySeen, emitted |-> <<>>, title |-> "", is_valid |-> FALSE]

\* the function that returns, if it leaves something in its locals
LeftOver ==
    IF seen # EmptySeen \/ title # "" \/ is_valid THEN op ELSE "-"

\* the start of a fleet-wide query: its local state, and the calls handed
\* to gather, which issues them
FanOut(o) ==
    /\ pc = "idle"
    /\ op' = o
    /\ target' = 0
    /\ \E kw \in ArgsOf(o) :
          /\ args' = kw
          /\ clients' = [i \in DOMAIN Calls(o, kw) |-> Calls(o, kw)[i].client]
          /\ remote' = gather_issue(Calls(o, kw))
          /\ outcomes' = gather_issue(Calls(o, kw))
          /\ sent' = Issue(Calls(o, kw))
    /\ responses' = <<>>
    /\ idx' = 0
    /\ seen' = Accumulator.seen
    /\ emitted' = Accumulator.emitted
    /\ title' = Accumulator.title
    /\ is_valid' = Accumulator.is_valid
    /\ left_over' = IF left_over = o THEN o ELSE "-"
    /\ result' = NoResult
    /\ in_order' = TRUE
    /\ pc' = "gather"
    /\ UNCHANGED <<connected, uploaded, waited, delete_vars>>

gen_all_known_operating_systems == FanOut("gen_all_known_operating_systems")

get_os_release_title == FanOut("get_os_release_title")

validate_license_key == FanOut("validate_license_key")

\* one call of the round settles, with a payload or with a failure
Settle ==
    /\ pc = "gather"
    /\ \E i \in DOMAIN remote : \E outcome \in FanOutOutcomes(op) :
         /\ IsPending(remote[i])
         /\ remote' = [remote EXCEPT ![i] = outcome]
         /\ outcomes' = gather_record(outcomes, i, outcome)
         /\ in_order' = (in_order
                            /\ \A j \in 1 .. i - 1 : ~IsPending(remote[j]))
    /\ UNCHANGED <<connected, uploaded, pc, op, target, clients, responses,
                   idx, seen, emitted, title, is_valid, result, sent, waited, args,
                   left_over, delete_vars>>

\* gather hands the outcome set to the caller
gather_return ==
    /\ pc = "gather"
    /\ gather_settled(outcomes)
    /\ responses' = gather_result(outcomes)
    /\ pc' = "reduce"
    /\ UNCHANGED <<connected, uploaded, op, target, clients, remote, outcomes,
                   idx, seen, emitted, title, is_valid, result, sent,
                   in_order, waited, args,
                   left_over, delete_vars>>

(* ------------------------------ reduction ----------------------------- *)

\* a loop that stops at the first valid answer
HasNext_until_valid ==
    idx < Len(suppress_failures(responses)) /\ ~is_valid

\* for response in suppress_failures(responses): the next response
HasNext == idx < Len(suppress_failures(responses))
NextResponse == suppress_failures(responses)[idx + 1]

\* a response that is no payload cannot be subscripted: response[key]
\* raises, and the exception leaves the operation
Subscript ==
    /\ result' = Raised("TypeError")
    /\ pc' = "done"
    /\ UNCHANGED <<idx, seen, emitted, title, is_valid>>

gen_all_known_operating_systems_loop ==
    /\ pc = "reduce"
    /\ op = "gen_all_known_operating_systems"
    /\ HasNext
    /\ IF IsSuccess(NextResponse)
       THEN LET acc == merge_osystems([seen |-> seen, emitted |-> emitted],
                                      NextResponse.val.osystems)
            IN  /\ seen' = acc.seen
                /\ emitted' = acc.emitted
                /\ idx' = idx + 1
                /\ UNCHANGED <<pc, title, is_valid, result>>
       ELSE Subscript
    /\ UNCHANGED <<connected, uploaded, op, target, clients, remote, outcomes,
                   responses, sent, in_order, waited, args,
                   left_over, delete_vars>>

gen_all_known_operating_systems_end ==
    /\ pc = "reduce"
    /\ op = "gen_all_known_operating_systems"
    /\ ~HasNext
    /\ result' = Value(emitted)
    /\ pc' = "done"
    /\ UNCHANGED <<connected, uploaded, op, target, clients, remote, outcomes,
                   responses, idx, seen, emitted, title, is_valid, sent,
                   in_order, waited, args,
                   left_over, delete_vars>>

get_os_release_title_loop ==
    /\ pc = "reduce"
    /\ op = "get_os_release_title"
    /\ HasNext
    /\ IF IsSuccess(NextResponse)
       THEN /\ title' = fold_title(title, NextResponse.val)
            /\ idx' = idx + 1
            /\ UNCHANGED <<pc, seen, emitted, is_valid, result>>
       ELSE Subscript
    /\ UNCHANGED <<connected, uploaded, op, target, clients, remote, outcomes,
                   responses, sent, in_order, waited, args,
                   left_over, delete_vars>>

get_os_release_title_return ==
    /\ pc = "reduce"
    /\ op = "get_os_release_title"
    /\ ~HasNext
    /\ result' = IF title = "" THEN None ELSE Value(title)
    /\ pc' = "done"
    /\ UNCHANGED <<connected, uploaded, op, target, clients, remote, outcomes,
                   responses, idx, seen, emitted, title, is_valid, sent,
                   in_order, waited, args,
                   left_over, delete_vars>>

validate_license_key_loop ==
    /\ pc = "reduce"
    /\ op = "validate_license_key"
    /\ HasNext
    /\ IF IsSuccess(NextResponse)
       THEN /\ is_valid' = fold_is_valid(is_valid, NextResponse.val)
            /\ idx' = idx + 1
            /\ UNCHANGED <<pc, seen, emitted, title, result>>
       ELSE Subscript
    /\ UNCHANGED <<connected, uploaded, op, target, clients, remote, outcomes,
                   responses, sent, in_order, waited, args,
                   left_over, delete_vars>>

validate_license_key_return ==
    /\ pc = "reduce"
    /\ op = "validate_license_key"
    /\ ~HasNext
    /\ result' = Value(is_valid)
    /\ pc' = "done"
    /\ UNCHANGED <<connected, uploaded, op, target, clients, remote, outcomes,
                   responses, idx, seen, emitted, title, is_valid, sent,
                   in_order, waited, args,
                   left_over, delete_vars>>

(* ------------------------ single-cluster calls ------------------------ *)

\* a client that is invoked a second time with the same call
client_call_twice(s, c, invocation) ==
    [s EXCEPT ![c] = Append(Append(@, invocation), invocation)]

\* call = client(Command, **kw): the client of agent c is invoked once
client_call(s, c, invocation) == [s EXCEPT ![c] = Append(@, invocation)]

\* client = getClientFor(uuid); call = client(command, ...): the lookup
\* raises when the cluster has no connection, else the call is issued
CallOne(o, a) ==
    /\ pc = "idle"
    /\ op' = o
    /\ target' = a
    /\ responses' = <<>>
    /\ outcomes' = <<>>
    /\ idx' = 0
    /\ seen' = EmptySeen
    /\ emitted' = <<>>
    /\ title' = ""
    /\ is_valid' = FALSE
    /\ in_order' = TRUE
    /\ \E kw \in ArgsOf(o) :
          /\ args' = kw
          /\ IF getClientFor(a).kind = "error"
             THEN /\ result' = getClientFor(a)
                  /\ clients' = <<>>
                  /\ remote' = <<>>
                  /\ sent' = sent
                  /\ pc' = "done"
             ELSE /\ result' = NoResult
                  /\ clients' = <<getClientFor(a).val>>
                  /\ remote' = <<Pending>>
                  /\ sent' = client_call(sent, getClientFor(a).val,
                                          Invocation(CommandOf(o), kw))
                  /\ pc' = "wait"
    /\ left_over' = "-"
    /\ waited' = 0
    /\ UNCHANGED <<connected, uploaded, delete_vars>>

get_preseed_data(a) == CallOne("get_preseed_data", a)

compose_curtin_network_preseed(a) ==
    CallOne("compose_curtin_network_preseed", a)

validate_license_key_for(a) == CallOne("validate_license_key_for", a)

\* a wait that gives up after 3 seconds
TimedOut_early(w) == w >= 3

\* call.wait(30) gives up once 30 seconds have passed without a response
TimedOut(w) == w >= WaitSeconds

\* a return that answers None when the call failed
wait_get_default(outcome, key) ==
    IF IsSuccess(outcome) THEN Get(outcome.val, key) ELSE None

\* call.wait(30).get(key) once the call has settled: the value of the
\* response under key, or the error the call failed with, raised
wait_get(outcome, key) ==
    IF IsSuccess(outcome) THEN Get(outcome.val, key) ELSE Raised(outcome.val)

\* a second passes while call.wait(30) blocks the caller
wait_tick ==
    /\ pc = "wait"
    /\ ~TimedOut(waited)
    /\ waited' = waited + 1
    /\ UNCHANGED <<connected, uploaded, pc, op, target, clients, remote,
                   outcomes, responses, idx, seen, emitted, title, is_valid,
                   result, sent, in_order, args,
                   left_over, delete_vars>>

\* the response arrives within the 30 seconds: call.wait(30) returns it, of
\* which .get(key) is returned, or raises what the call failed with
wait_return ==
    /\ pc = "wait"
    /\ ~TimedOut(waited)
    /\ IsPending(remote[1])
    /\ \E outcome \in SingleOutcomes(op) :
         /\ remote' = <<outcome>>
         /\ result' = wait_get(outcome, KeyOf(op))
    /\ pc' = "done"
    /\ UNCHANGED <<connected, uploaded, op, target, clients, outcomes,
                   responses, idx, seen, emitted, title, is_valid, sent,
                   in_order, waited, args,
                   left_over, delete_vars>>

\* call.wait(30) raises TimeoutError: no response within the 30 seconds
wait_timeout ==
    /\ pc = "wait"
    /\ TimedOut(waited)
    /\ IsPending(remote[1])
    /\ result' = Raised("Timeout")
    /\ pc' = "done"
    /\ UNCHANGED <<connected, uploaded, op, target, clients, remote, outcomes,
                   responses, idx, seen, emitted, title, is_valid, sent,
                   in_order, waited, args,
                   left_over, delete_vars>>

\* the abandoned call settles after the caller stopped waiting
settle_late ==
    /\ pc = "done"
    /\ op \in SingleOps
    /\ Len(remote) = 1
    /\ IsPending(remote[1])
    /\ \E outcome \in SingleOutcomes(op) : remote' = <<outcome>>
    /\ UNCHANGED <<connected, uploaded, pc, op, target, clients, outcomes,
                   responses, idx, seen, emitted, title, is_valid, result,
                   sent, in_order, waited, args,
                   left_over, delete_vars>>

(* ----------------- post_delete handler (bootresourcefile) ------------- *)

FileIds == 1 .. MaxFiles
LargeFileIds == 1 .. MaxLargeFiles

\* the models whose rows are deleted: post_delete is sent for every model
Senders == {"BootResourceFile", "LargeFile", "OtherModel"}

\* an instance as the handler sees it: its id and what its largefile
\* attribute refers to
Instance(i, l) == [id |-> i, largefile |-> l]

NoSignal == [sender |-> "-", instance |-> Instance(0, 0), rows |-> {}]

\* instance.largefile: the LargeFile row, or LargeFile.DoesNotExist raised
instance_largefile(instance, rows) ==
    IF instance.largefile \in rows
    THEN Value(instance.largefile)
    ELSE Raised("DoesNotExist")

\* a handler that does not look at the sender
delete_large_file_any_sender(sender, instance, rows) ==
    LET got == instance_largefile(instance, rows)
    IN  [calls |-> IF got.kind = "value" THEN <<got.val>> ELSE <<>>,
         raised |-> "-"]

\* delete_large_file(sender, instance): the LargeFiles it calls delete
\* on, and the error that leaves it
delete_large_file(sender, instance, rows) ==
    IF sender = "BootResourceFile"
    THEN LET got == instance_largefile(instance, rows)
         IN  [calls |-> IF got.kind = "value" THEN <<got.val>> ELSE <<>>,
              raised |-> "-"]
    ELSE [calls |-> <<>>, raised |-> "-"]

\* largefile.delete(): the row goes when no resource file refers to it
LargeFile_delete(l, files, rows) ==
    IF \E f \in files : f.largefile = l THEN rows ELSE rows \ {l}

RECURSIVE LargeFile_delete_all(_, _, _)
LargeFile_delete_all(calls, files, rows) ==
    IF Len(calls) = 0 THEN rows
    ELSE LargeFile_delete_all(Tail(calls), files,
                              LargeFile_delete(Head(calls), files, rows))

\* the post_delete signal: the row is gone already (files, rows are what
\* is left), the handler runs to its end
post_delete(sender, instance, files, rows) ==
    LET done == delete_large_file(sender, instance, rows)
    IN  /\ signal' = [sender |-> sender, instance |-> instance, rows |-> rows]
        /\ delete_calls' = done.calls
        /\ raised' = done.raised
        /\ resource_files' = files
        /\ large_files' = LargeFile_delete_all(done.calls, files, rows)
        /\ UNCHANGED osystems_vars

\* a row is created: no signal is being handled any more
NoHandler ==
    /\ signal' = NoSignal
    /\ delete_calls' = <<>>
    /\ raised' = "-"

LargeFile_create ==
    \E l \in LargeFileIds \ large_files :
        /\ large_files' = large_files \cup {l}
        /\ NoHandler
        /\ UNCHANGED <<resource_files, osystems_vars>>

BootResourceFile_create ==
    \E i \in FileIds \ {f.id : f \in resource_files} :
        \E l \in large_files :
            /\ resource_files' = resource_files \cup {Instance(i, l)}
            /\ NoHandler
            /\ UNCHANGED <<large_files, osystems_vars>>

\* a BootResourceFile row is deleted
BootResourceFile_delete ==
    \E f \in resource_files :
        post_delete("BootResourceFile", f, resource_files \ {f}, large_files)

\* a LargeFile row is deleted, whether resource files refer to it or not
LargeFile_deleted ==
    \E l \in large_files :
        post_delete("LargeFile", Instance(l, 0), resource_files,
                    large_files \ {l})

\* a row of another model, which has a largefile too, is deleted
OtherModel_delete ==
    \E l \in LargeFileIds :
        post_delete("OtherModel", Instance(0, l), resource_files, large_files)

(* ------------------------------- system ------------------------------- *)

\* the caller has its answer.  What the loop's locals held is kept until
\* the next operation creates its own, which is what shows whether a
\* later call reads them.
Finish ==
    /\ pc = "done"
    /\ pc' = "idle"
    /\ op' = "-"
    /\ target' = 0
    /\ clients' = <<>>
    /\ remote' = <<>>
    /\ outcomes' = <<>>
    /\ responses' = <<>>
    /\ idx' = 0
    /\ result' = NoResult
    /\ sent' = NothingSent
    /\ in_order' = TRUE
    /\ args' = NoArgs
    /\ left_over' = LeftOver
    /\ waited' = 0
    /\ UNCHANGED <<connected, uploaded, seen, emitted, title, is_valid, delete_vars>>

Init ==
    /\ connected \in SUBSET Agents
    /\ uploaded \in UploadedChoices
    /\ pc = "idle"
    /\ op = "-"
    /\ target = 0
    /\ clients = <<>>
    /\ remote = <<>>
    /\ outcomes = <<>>
    /\ responses = <<>>
    /\ idx = 0
    /\ seen = EmptySeen
    /\ emitted = <<>>
    /\ title = ""
    /\ is_valid = FALSE
    /\ result = NoResult
    /\ sent = NothingSent
    /\ in_order = TRUE
    /\ args = NoArgs
    /\ left_over = "-"
    /\ waited = 0
    /\ resource_files = {}
    /\ large_files = {}
    /\ signal = NoSignal
    /\ delete_calls = <<>>
    /\ raised = "-"

Next ==
    \/ gen_all_known_operating_systems
    \/ get_os_release_title
    \/ validate_license_key
    \/ Settle
    \/ gather_return
    \/ gen_all_known_operating_systems_loop
    \/ gen_all_known_operating_systems_end
    \/ get_os_release_title_loop
    \/ get_os_release_title_return
    \/ validate_license_key_loop
    \/ validate_license_key_return
    \/ \E a \in Agents : get_preseed_data(a)
    \/ \E a \in Agents : compose_curtin_network_preseed(a)
    \/ \E a \in Agents : validate_license_key_for(a)
    \/ wait_tick
    \/ wait_return
    \/ wait_timeout
    \/ settle_late
    \/ Finish

Spec == Init /\ [][Next]_vars

\* the database with no cluster operation running
InitDelete ==
    /\ Init
    /\ connected = {}
    /\ uploaded = {}

NextDelete ==
    \/ LargeFile_create
    \/ BootResourceFile_create
    \/ BootResourceFile_delete
    \/ LargeFile_deleted
    \/ OtherModel_delete

SpecDelete == InitDelete /\ [][NextDelete]_vars

(* ------------------------------- claims ------------------------------- *)

SameOutcome(x, y) == x.tag = y.tag /\ x.val = y.val

\* a fleet-wide query whose outcome set has been handed over
Reducing == op \in FanOutOps /\ pc \in {"reduce", "done"}

\* the input positions whose call failed, succeeded
Failed == {i \in DOMAIN remote : remote[i].tag = "Failure"}
Succeeded == {i \in DOMAIN remote : IsSuccess(remote[i])}

\* the k-th smallest element of a set of positions
Kth(P, k) == CHOOSE i \in P : Cardinality({j \in P : j <= i}) = k

\* C1: in a fan-out round, as long as a call of the round is outstanding
\* the outcome set has not been handed over and no reduction step has
\* run; once it is handed over it holds a settled outcome for every call.
C1_ReductionAfterAllSettled ==
    op \in FanOutOps =>
        /\ (\E i \in DOMAIN remote : IsPending(remote[i])) =>
               /\ pc = "gather"
               /\ responses = <<>>
               /\ idx = 0
               /\ result = NoResult
        /\ pc \in {"reduce", "done"} =>
               /\ DOMAIN responses = DOMAIN remote
               /\ \A i \in DOMAIN responses : ~IsPending(responses[i])

C1_Witness ==
    /\ op \in FanOutOps
    /\ pc = "reduce"
    /\ idx > 0
    /\ Failed # {}
    /\ Cardinality(Succeeded) >= 2

\* C2: a failure of one call never cancels a sibling: while the round is
\* gathering, every other call is still outstanding or holds its own
\* outcome, and once the round is handed over every call that succeeded
\* has its payload in the outcome set and in the filtered responses,
\* whichever calls failed.
C2_FailureNeverAbortsSiblings ==
    /\ (op \in FanOutOps /\ pc = "gather") =>
           \A i \in DOMAIN remote : SameOutcome(outcomes[i], remote[i])
    /\ Reducing =>
           \A i \in Succeeded :
               /\ i \in DOMAIN responses
               /\ SameOutcome(responses[i], remote[i])
               /\ Contains(suppress_failures(responses), remote[i])

C2_Witness ==
    /\ Reducing
    /\ Len(remote) = 3
    /\ Failed = {1, 3}
    /\ Succeeded = {2}
    /\ ~in_order

\* C3: no error kind of an agent's call reaches the caller of a
\* fleet-wide query: the query returns a value, never an error, and the
\* value is the reduction over the payloads of exactly the calls that
\* succeeded, in input order.
SucceededPayloads ==
    [k \in 1 .. Cardinality(Succeeded) |-> remote[Kth(Succeeded, k)].val]

C3_Reduction(payloads) ==
    CASE op = "validate_license_key" ->
           Value(\E k \in DOMAIN payloads : payloads[k].is_valid)
      [] op = "get_os_release_title" ->
           LET P == {k \in DOMAIN payloads : payloads[k].title # ""}
           IN  IF P = {} THEN None
               ELSE Value(payloads[Kth(P, Cardinality(P))].title)
      [] op = "gen_all_known_operating_systems" ->
           LET Rec[k \in 0 .. Len(payloads)] ==
                   IF k = 0 THEN [seen |-> EmptySeen, emitted |-> <<>>]
                   ELSE merge_osystems(Rec[k - 1], payloads[k].osystems)
           IN  Value(Rec[Len(payloads)].emitted)

C3_AgentErrorsNeverEscape ==
    (op \in FanOutOps /\ pc = "done") =>
        /\ result.kind # "error"
        /\ result = C3_Reduction(SucceededPayloads)

C3_Witness ==
    /\ op \in FanOutOps
    /\ pc = "done"
    /\ Succeeded # {}
    /\ Cardinality({remote[i].val : i \in Failed}) >= 2

\* C4: the outcome set handed over has one entry per connection the round
\* dispatched to: its length is the number of connections, and every
\* connection has exactly one settled outcome, whatever failed.
C4_OneOutcomePerConnection ==
    Reducing =>
        /\ Len(responses) = Cardinality(connected)
        /\ Len(clients) = Len(responses)
        /\ \A a \in connected :
               Cardinality({i \in DOMAIN responses :
                              clients[i] = a /\ ~IsPending(responses[i])}) = 1

C4_Witness ==
    /\ Reducing
    /\ Failed = {1, 2}
    /\ Succeeded = {3}

\* C5: the outcome set holds at each input position the outcome of the
\* call dispatched at that position, in whatever order the calls
\* completed; after [A ok, B fails, C ok] it has length 3 and the filter
\* yields A's response, then C's.
C5_InputOrderPreserved ==
    Reducing =>
        /\ \A i \in DOMAIN remote :
               i \in DOMAIN responses /\ SameOutcome(responses[i], remote[i])
        /\ (Succeeded = {1, 3} /\ Failed = {2}) =>
               /\ Len(responses) = 3
               /\ suppress_failures(responses) = <<remote[1], remote[3]>>

C5_Witness ==
    /\ Reducing
    /\ Succeeded = {1, 3}
    /\ Failed = {2}
    /\ remote[1].val # remote[3].val
    /\ ~in_order

\* C6: the filter's output is exactly the subsequence of the entries of
\* the outcome set that are no Failure: as many as there are such
\* entries, never more than the set holds, the k-th output being the k-th
\* such entry.
C6_FilterDropsFailuresOnly ==
    Reducing =>
        LET out == suppress_failures(responses)
            P == {i \in DOMAIN responses : responses[i].tag # "Failure"}
        IN  /\ Len(out) = Cardinality(P)
            /\ Len(out) <= Len(responses)
            /\ \A k \in 1 .. Len(out) :
                   /\ out[k].tag = "Success"
                   /\ SameOutcome(out[k], responses[Kth(P, k)])

C6_Witness ==
    /\ Reducing
    /\ Len(responses) = 3
    /\ responses[1].tag = "Failure"
    /\ responses[2].tag = "Success"
    /\ responses[3].tag = "Success"
    /\ responses[2].val # responses[3].val

\* C7: validate_license_key returns true exactly when some call that
\* succeeded answered is_valid = true, hence false when every answer is
\* false, when every call failed and when there is no connection.
C7_LogicalOr ==
    (op = "validate_license_key" /\ pc = "done") =>
        /\ result.kind = "value"
        /\ result.val = (\E i \in Succeeded : remote[i].val.is_valid)

C7_Witness ==
    /\ op = "validate_license_key"
    /\ pc = "done"
    /\ Failed # {}
    /\ \E i, j \in Succeeded :
          i < j /\ remote[i].val.is_valid /\ ~remote[j].val.is_valid

\* C8: get_os_release_title returns the non-empty title of the last
\* input position whose call succeeded with a non-empty title, and None
\* when there is no such position.
C8_LastNonEmptyTitle ==
    (op = "get_os_release_title" /\ pc = "done") =>
        LET P == {i \in Succeeded : remote[i].val.title # ""}
        IN  IF P = {} THEN result = None
            ELSE /\ result.kind = "value"
                 /\ result.val = remote[Kth(P, Cardinality(P))].val.title

C8_Witness ==
    /\ op = "get_os_release_title"
    /\ pc = "done"
    /\ \E i, j, k \in Succeeded :
          /\ i < j /\ j < k
          /\ remote[i].val.title = "a"
          /\ remote[j].val.title = "b"
          /\ remote[k].val.title = ""

\* C9: gen_all_known_operating_systems emits every distinct item the
\* clusters reported once, at its first occurrence and in encounter
\* order (fixed up when it is the custom OS): exact duplicates are
\* emitted once, items that differ in detail are each emitted.
RECURSIVE Flatten(_)
Flatten(payloads) ==
    IF Len(payloads) = 0 THEN <<>>
    ELSE Head(payloads).osystems \o Flatten(Tail(payloads))

FirstOccurrences(l) ==
    LET keep == {k \in DOMAIN l : \A j \in 1 .. k - 1 : l[j] # l[k]}
    IN  [n \in 1 .. Cardinality(keep) |-> l[Kth(keep, n)]]

FixedUp(osystem) ==
    IF osystem.name = "custom"
    THEN fix_custom_osystem_release_titles(osystem)
    ELSE osystem

C9_ExactDuplicatesSuppressed ==
    (op = "gen_all_known_operating_systems" /\ pc = "done") =>
        LET first == FirstOccurrences(Flatten(SucceededPayloads))
        IN  /\ result.kind = "value"
            /\ result.val = [n \in DOMAIN first |-> FixedUp(first[n])]

\* C10: a single-cluster call that names an agent without a live
\* connection has failed with NoConnectionsAvailable and has issued no
\* remote call, to that agent or to any other.
C10_NoConnectionNoCall ==
    (op \in SingleOps /\ target \notin connected) =>
        /\ pc = "done"
        /\ result = Raised("NoConnectionsAvailable")
        /\ sent = NothingSent
        /\ remote = <<>>

C10_Witness ==
    /\ op \in SingleOps
    /\ pc = "done"
    /\ target \notin connected
    /\ connected # {}

\* a single-cluster call that has returned or raised
SingleDone == op \in SingleOps /\ pc = "done"

\* C11: a single-cluster call lets every error through: it raises
\* NoConnectionsAvailable when the agent has no connection, Timeout when
\* the wait gave up, and otherwise the very error its call failed with;
\* it returns normally only when its call succeeded.
C11_ErrorsPropagate ==
    SingleDone =>
        IF target \notin connected
        THEN result = Raised("NoConnectionsAvailable")
        ELSE IF waited >= WaitSeconds
        THEN result = Raised("Timeout")
        ELSE IF remote[1].tag = "Failure"
        THEN result = Raised(remote[1].val)
        ELSE /\ remote[1].tag = "Success"
             /\ result.kind \in {"value", "None"}

C11_Witness ==
    /\ SingleDone
    /\ waited < WaitSeconds
    /\ target \in connected
    /\ remote[1].tag = "Failure"
    /\ remote[1].val = "UnsupportedOperation"

\* C12: a single-cluster call blocks its caller, without a result, until
\* the call settles or 30 seconds have passed, whichever is first: a
\* result other than Timeout is one that came before the 30 seconds, and
\* once the 30 seconds have passed the caller has Timeout and keeps it
\* whatever the abandoned call settles to afterwards.
C12_DeadlineThenAbandoned ==
    (op \in SingleOps /\ target \in connected) =>
        /\ pc = "wait" =>
               /\ result = NoResult
               /\ remote[1].tag = "Pending"
               /\ waited <= 30
        /\ pc = "done" =>
               IF waited = 30
               THEN result = Raised("Timeout")
               ELSE /\ waited < 30
                    /\ remote[1].tag # "Pending"
                    /\ result.kind # "-"
                    /\ result # Raised("Timeout")

C12_Witness ==
    /\ SingleDone
    /\ waited = 30
    /\ remote[1].tag = "Success"
    /\ result = Raised("Timeout")

\* C13 as claimed: on completion within the deadline a single-cluster
\* call returns the payload the agent sent, verbatim, as a mapping.
C13_PayloadVerbatim ==
    (SingleDone /\ target \in connected /\ waited < WaitSeconds
       /\ remote[1].tag = "Success") =>
        /\ result.kind = "dict"
        /\ result.val = remote[1].val

\* C13 as amended: on completion within the deadline a single-cluster
\* call returns the value of the payload under one key, "is_valid" for
\* validate_license_key_for and "data" for the other two, and None when
\* the payload lacks that key; the rest of the payload is dropped.
C13_ValueUnderKey ==
    (SingleDone /\ target \in connected /\ waited < WaitSeconds
       /\ remote[1].tag = "Success") =>
        LET key == IF op = "validate_license_key_for" THEN "is_valid"
                   ELSE "data"
            vals == {kv[2] : kv \in {x \in remote[1].val : x[1] = key}}
        IN  IF vals = {} THEN result = None
            ELSE result.kind = "value" /\ result.val \in vals

C13_Witness ==
    /\ SingleDone
    /\ op = "validate_license_key_for"
    /\ target \in connected
    /\ waited < WaitSeconds
    /\ remote[1].tag = "Success"
    /\ Cardinality(remote[1].val) = 2
    /\ result = Value("v2")

\* C15: a fleet-wide query over no connection issues no call and waits
\* for none: gather can return at once, what it returns is the empty
\* outcome set, and the loop over it has nothing to visit.
C15_NoConnectionsNoBlocking ==
    (op \in FanOutOps /\ connected = {}) =>
        /\ sent = NothingSent
        /\ DOMAIN remote = {}
        /\ pc = "gather" => ENABLED gather_return
        /\ pc \in {"reduce", "done"} => (DOMAIN responses = {} /\ idx = 0)

C15_Witness ==
    /\ op = "validate_license_key"
    /\ connected = {}
    /\ pc = "done"
    /\ result.val = FALSE

\* C17: validate_license_key returns only after its loop has visited
\* every response of the round that is no failure, also those that come
\* after a valid answer.
C17_OrVisitsEveryResponse ==
    (op = "validate_license_key" /\ pc = "done") =>
        idx = Cardinality(Succeeded)

C17_Witness ==
    /\ op = "validate_license_key"
    /\ pc = "done"
    /\ Cardinality(Succeeded) = 3
    /\ remote[1].val.is_valid
    /\ ~remote[3].val.is_valid
    /\ idx = 3

\* the items the clusters reported in the round, in encounter order
Reported == Flatten(SucceededPayloads)

\* the title an uploaded row supplies for a release name, if any
OverrideTitles(n) ==
    {kv[2] : kv \in {e \in UNION {r.extra : r \in {u \in uploaded :
                                                    u.name = n}} :
                       e[1] = "title"}}

\* e is x with the titles of its overridden releases replaced, when x is
\* the custom OS, and x itself otherwise
IsFixupOf(e, x) ==
    /\ DOMAIN e = DOMAIN x
    /\ e.name = x.name
    /\ DOMAIN e.releases = DOMAIN x.releases
    /\ \A i \in DOMAIN x.releases :
          /\ DOMAIN e.releases[i] = DOMAIN x.releases[i]
          /\ e.releases[i].name = x.releases[i].name
          /\ IF x.name = "custom"
                /\ OverrideTitles(x.releases[i].name) # {}
             THEN e.releases[i].title
                    \in OverrideTitles(x.releases[i].name)
             ELSE e.releases[i].title = x.releases[i].title

\* C18: every item gen_all_known_operating_systems emits is an item a
\* cluster reported, changed only in the titles of the releases of the
\* custom OS for which an uploaded resource of the release's name
\* supplies a title; other releases, names and other items are as
\* reported.
C18_FixupOnlyCustomTitles ==
    (op = "gen_all_known_operating_systems" /\ pc \in {"reduce", "done"}) =>
        \A n \in DOMAIN emitted :
            \E k \in DOMAIN Reported : IsFixupOf(emitted[n], Reported[k])

C18_Witness ==
    /\ op = "gen_all_known_operating_systems"
    /\ pc = "done"
    /\ BootResource("20.04", {<<"title", "Focal">>}) \in uploaded
    /\ result.kind = "value"
    /\ Contains(result.val, Ubuntu2004)
    /\ Contains(result.val,
                Osystem("custom", <<Release("r1", "new"),
                                    Release("r2", "other")>>))

\* C19: an identical custom item reported by two clusters is emitted
\* once, also when an uploaded resource replaces one of its titles.
C19_IdenticalCustomEmittedOnce ==
    (op = "gen_all_known_operating_systems" /\ pc = "done"
       /\ result.kind = "value") =>
        \A k \in DOMAIN Reported :
            Reported[k].name = "custom" =>
                Cardinality({n \in DOMAIN result.val :
                               result.val[n] = FixedUp(Reported[k])}) = 1

\* C20: from the start of a fleet-wide query to its return, every
\* connected cluster has been invoked exactly once, with the operation's
\* command and the arguments the caller gave, and no other cluster has
\* been invoked: a failed call is not issued again.
C20_OneInvocationPerConnection ==
    (op \in FanOutOps) =>
        \A a \in Agents :
            sent[a] = IF a \in connected
                      THEN <<Invocation(CommandOf(op), args)>>
                      ELSE <<>>

C20_Witness ==
    /\ op = "validate_license_key"
    /\ pc = "done"
    /\ args # NoArgs
    /\ Cardinality(connected) = 3
    /\ Failed # {}
    /\ Succeeded # {}

\* C21: a single-cluster call whose agent is connected has resolved that
\* agent's connection alone and has invoked it exactly once, while it
\* waits and after it has returned, failed or timed out; when it has
\* failed, the error is the timeout of its own wait or the error the
\* agent answered with.
C21_OneCallNoRetry ==
    (op \in SingleOps /\ target \in connected) =>
        /\ clients = <<target>>
        /\ Len(remote) = 1
        /\ \A a \in Agents :
              sent[a] = IF a = target
                        THEN <<Invocation(CommandOf(op), args)>>
                        ELSE <<>>
        /\ (pc = "done" /\ result.kind = "error") =>
              \/ result.val = "Timeout" /\ TimedOut(waited)
              \/ remote[1].tag = "Failure" /\ result.val = remote[1].val

C21_Witness ==
    /\ op = "get_preseed_data"
    /\ pc = "done"
    /\ Cardinality(connected) = 3
    /\ target \in connected
    /\ result.kind = "error"
    /\ result.val # "Timeout"
    /\ remote[1].tag = "Failure"

\* C23: a fleet-wide query starts its loop with empty locals whatever
\* the call before left behind, and what it returns comes from the
\* answers of its own round alone: every item reported in the round is
\* emitted, a true result has a true answer in the round, a title
\* returned is a title answered in the round.
C23_AccumulatorFreshEachRound ==
    (op \in FanOutOps) =>
        /\ (pc = "gather" \/ (pc = "reduce" /\ idx = 0)) =>
              /\ seen = EmptySeen
              /\ emitted = <<>>
              /\ title = ""
              /\ ~is_valid
        /\ (pc = "done" /\ result.kind = "value") =>
              CASE op = "gen_all_known_operating_systems" ->
                     /\ \A k \in DOMAIN Reported :
                           Contains(result.val, FixedUp(Reported[k]))
                     /\ \A n \in DOMAIN result.val :
                           \E k \in DOMAIN Reported :
                              result.val[n] = FixedUp(Reported[k])
                [] op = "validate_license_key" ->
                     result.val => \E i \in Succeeded : remote[i].val.is_valid
                [] op = "get_os_release_title" ->
                     \E i \in Succeeded : remote[i].val.title = result.val

\* a round that returns false after a round that ended with is_valid true
C23_Witness ==
    /\ op = "validate_license_key"
    /\ pc = "done"
    /\ left_over = "validate_license_key"
    /\ Succeeded # {}
    /\ result.kind = "value"
    /\ ~result.val

\* the orders in which n outcomes can be delivered
Orders(n) ==
    {f \in [1 .. n -> 1 .. n] : \A i, j \in 1 .. n : f[i] = f[j] => i = j}

\* the loop of validate_license_key run over the responses rs from v
RECURSIVE is_valid_over(_, _)
is_valid_over(v, rs) ==
    IF Len(rs) = 0 THEN v
    ELSE is_valid_over(fold_is_valid(v, Head(rs).val), Tail(rs))

\* C24: what validate_license_key returned is what its loop yields on
\* the outcomes of the round delivered in any order, so no two delivery
\* orders of the same outcomes give different results.
C24_OrderIndependent ==
    (op = "validate_license_key" /\ pc = "done" /\ result.kind = "value") =>
        \A f \in Orders(Len(responses)) :
            result.val =
                is_valid_over(FALSE,
                    suppress_failures([i \in DOMAIN responses |->
                                          responses[f[i]]]))

\* three calls that settled out of input order, with a failure, a valid
\* and an invalid answer
C24_Witness ==
    /\ op = "validate_license_key"
    /\ pc = "done"
    /\ ~in_order
    /\ Len(responses) = 3
    /\ Failed # {}
    /\ \E i, j \in Succeeded :
          remote[i].val.is_valid /\ ~remote[j].val.is_valid

\* C25: after a post_delete signal the handler has raised nothing; when
\* the sender was BootResourceFile and the instance's LargeFile existed it has called
\* delete on that LargeFile once, and in every other case, another
\* sender or a LargeFile that no longer exists, it has called nothing
\* and the LargeFile rows are as they were.
C25_DeleteOnlyForBootResourceFile ==
    (signal # NoSignal) =>
        /\ raised = "-"
        /\ IF signal.sender = "BootResourceFile"
              /\ signal.instance.largefile \in signal.rows
           THEN delete_calls = <<signal.instance.largefile>>
           ELSE delete_calls = <<>> /\ large_files = signal.rows

\* a BootResourceFile whose LargeFile is gone has been deleted
C25_Witness ==
    /\ signal.sender = "BootResourceFile"
    /\ signal.instance.largefile \notin signal.rows
    /\ signal.rows # {}
    /\ delete_calls = <<>>
    /\ raised = "-"

=============================================================================
